---- MODULE Spec2Model ----
(***************************************************************************)
(* SegmentClient: the wrapper around the analytics.js client that queues   *)
(* calls made before the library has loaded (src/src/index.tsx, 41-335).   *)
(* One SegmentClient instance, its 'initialize' event emitter, the promises *)
(* it hands out and the handle it forwards to.                              *)
(***************************************************************************)
EXTENDS Integers, Sequences, FiniteSets, TLC

\* ---------------------------------------------------------------- bounds
\* number of wrapper method calls a behaviour issues
MaxCalls == 2
\* number of renders of the provider, the first one included
MaxRenders == 3
\* number of wrapper method calls issued under a mounted provider
MaxAppCalls == 1
\* number of useSegment() calls by components
MaxConsumers == 2

\* ------------------------------------------------------------- constants
Undef == "undefined"
None == "none"
DefaultTimeout == "200"
DefaultDebug == "false"
AnonymizedIp == "0.0.0.0"
Handles == {"h1", "h2"}

EventMethods == {"page", "identify", "alias", "track", "group"}
Methods == EventMethods \cup {"ready", "on", "setAnonymousId"}

\* what a handle method does when it is invoked: throw synchronously, return
\* and fire the completion callback later (or never), or fire the completion
\* callback before it returns
CallbackOutcomes == {"throws", "returns", "calls_back"}
PlainOutcomes == {"throws", "returns"}
OutcomesOf(method) ==
  IF method \in {"on", "setAnonymousId"} THEN PlainOutcomes ELSE CallbackOutcomes

\* ---------------------------------------------------------- option values
UndefContext == [kind |-> Undef, ip |-> Undef]
UndefOpts ==
  [kind |-> Undef, integrations |-> Undef, anonymousId |-> Undef,
   context |-> UndefContext]
PlainOpts ==
  [kind |-> "object", integrations |-> "All", anonymousId |-> "anon",
   context |-> UndefContext]
ContextOpts ==
  [kind |-> "object", integrations |-> Undef, anonymousId |-> Undef,
   context |-> [kind |-> "object", ip |-> "1.2.3.4"]]
SegmentOpts == {UndefOpts, PlainOpts, ContextOpts}

\* ------------------------------------------------------------ event records
PageEvent ==
  { [name |-> Undef, category |-> Undef, properties |-> Undef, options |-> UndefOpts],
    [name |-> "Test", category |-> "Category", properties |-> "test=1",
     options |-> ContextOpts] }
IdentifyEvent ==
  { [userId |-> "12345", traits |-> "test=1", options |-> PlainOpts] }
AliasEvent ==
  { [userId |-> "12345", previousId |-> "54321", options |-> UndefOpts] }
TrackEvent ==
  { [event |-> "Test Event", properties |-> "test=1", options |-> PlainOpts] }
GroupEvent ==
  { [groupId |-> "Admin", traits |-> "test=1", options |-> ContextOpts] }
ReadyEvent == { [callback |-> "readyCb"] }
OnEvent == { [method |-> "track", callback |-> "onCb"] }
AnonymousIdEvent == { [id |-> "anon-1"] }

\* constructor options: { apiKey, debug?, timeout?, anonymizeIp? }
Options ==
  { [debug |-> Undef, timeout |-> Undef, anonymizeIp |-> Undef],
    [debug |-> Undef, timeout |-> Undef, anonymizeIp |-> "false"],
    [debug |-> "true", timeout |-> "500", anonymizeIp |-> "true"] }

VARIABLES
  options,      \* this.options
  client,       \* this.client: None or the handle
  listeners,    \* this.emitter: the listeners of 'initialize', in registration order
  calls,        \* the wrapper method calls issued so far
  promises,     \* every promise created by a wrapper method
  jobs,         \* promise reaction jobs waiting in the microtask queue
  invocations,  \* every invocation of a handle method, in order
  emitted,      \* how many times 'initialize' was emitted
  console,      \* console.log lines
  callbacks,    \* invocations of ready() callbacks
  escaped,      \* operations whose exception reached the caller (0: initialize)
  initialized   \* the handles initialize has been called with

\* the provider (useSegmentClient) and the script loader (loadSegmentSnippet)
VARIABLES
  env,              \* "server": no window; "nodocument": window, no document
  windowAnalytics,  \* window.analytics: None or the handle
  scripts,          \* the script elements appended to document.head
  loads,            \* the calls of loadSegmentSnippet
  memo,             \* useMemo: the dependencies and instance of the last render
  effectDeps,       \* useEffect: the dependencies of the last render
  instances,        \* the SegmentClient instances constructed by the provider
  renders,          \* the props of the renders so far
  consumers         \* the useSegment() calls made by components

wvars == <<options, client, listeners, calls, promises, jobs, invocations,
           emitted, console, callbacks, escaped, initialized>>
bvars == <<env, windowAnalytics, scripts, loads, memo, effectDeps, instances,
           renders, consumers>>
vars == <<options, client, listeners, calls, promises, jobs, invocations,
          emitted, console, callbacks, escaped, initialized,
          env, windowAnalytics, scripts, loads, memo, effectDeps, instances,
          renders, consumers>>

\* the mutable part of the program state as one value, threaded through the
\* method bodies; exc: an exception is propagating
St ==
  [client |-> client, listeners |-> listeners, promises |-> promises,
   jobs |-> jobs, invocations |-> invocations, emitted |-> emitted,
   console |-> console, callbacks |-> callbacks, exc |-> FALSE]

Truthy(v) == v \notin {Undef, "false"}

\* ------------------------------------------------------------- promises
\* new Promise(executor): a pending promise with no reaction attached
NewPromise(st) ==
  [st EXCEPT !.promises = Append(@, [state |-> "pending", then |-> 0])]

\* resolve(): settles a pending promise and queues the reaction attached to it
Resolve(st, p) ==
  IF st.promises[p].state # "pending" THEN st
  ELSE LET s1 == [st EXCEPT !.promises[p].state = "resolved"]
       IN IF st.promises[p].then # 0
          THEN [s1 EXCEPT !.jobs = Append(@, st.promises[p].then)]
          ELSE s1

\* reject(error): the reaction of a .then(onFulfilled) is never run
Reject(st, p) ==
  IF st.promises[p].state # "pending" THEN st
  ELSE [st EXCEPT !.promises[p].state = "rejected"]

\* q.then(() => resolve()) where resolve belongs to promise p
Then(st, q, p) ==
  CASE st.promises[q].state = "resolved" -> [st EXCEPT !.jobs = Append(@, p)]
    [] st.promises[q].state = "pending" -> [st EXCEPT !.promises[q].then = p]
    [] OTHER -> st

\* ---------------------------------------------------------------- logging
\* if (debug) console.log('[Segment] ...', event)
Log(st, line, c) ==
  IF Truthy(options.debug)
  THEN [st EXCEPT !.console = Append(@, [line |-> line, call |-> c])]
  ELSE st

\* ------------------------------------------------------------ the handle
\* one invocation of a method of the handle this.client; pending: the handle
\* holds a completion callback it has not fired
Invoke(st, method, args, opts, c, p, out) ==
  [st EXCEPT !.invocations =
     Append(@, [handle |-> st.client, method |-> method, args |-> args,
                options |-> opts, call |-> c, promise |-> p,
                status |-> CASE out = "throws" -> "threw"
                             [] method \in EventMethods \cup {"ready"} -> "pending"
                             [] OTHER -> "returned"])]

SuccessLine(method) ==
  CASE method = "page" -> "Page succesful"
    [] method = "identify" -> "Identify succesful"
    [] method = "alias" -> "Alias succesful"
    [] method = "track" -> "Track sucessful"
    [] method = "group" -> "Group succesful"

\* the completion callback the wrapper handed to invocation i is run
Complete(st, i) ==
  LET inv == st.invocations[i]
      s1 == [st EXCEPT !.invocations[i].status = "completed"]
      s2 == IF inv.method = "ready"
            THEN IF Truthy(inv.args[1]) /\ s1.client # None
                 THEN [s1 EXCEPT !.callbacks =
                         Append(@, [call |-> inv.call, callback |-> inv.args[1],
                                    analytics |-> s1.client])]
                 ELSE s1
            ELSE Log(s1, SuccessLine(inv.method), inv.call)
  IN Resolve(s2, inv.promise)

\* variant: { context: { ip: ... }, ...options }, a context of the caller wins
InjectContext_options_last(opts) ==
  [kind |-> "object", integrations |-> opts.integrations,
   anonymousId |-> opts.anonymousId,
   context |-> IF opts.context.kind = "object" THEN opts.context
               ELSE [kind |-> "object",
                     ip |-> IF Truthy(options.anonymizeIp) THEN AnonymizedIp
                            ELSE Undef]]

\* the options argument of page, identify, track and group:
\* { ...options, context: { ip: anonymizeIp ? '0.0.0.0' : undefined } }
InjectContext(opts) ==
  [kind |-> "object", integrations |-> opts.integrations,
   anonymousId |-> opts.anonymousId,
   context |-> [kind |-> "object",
                ip |-> IF Truthy(options.anonymizeIp) THEN AnonymizedIp ELSE Undef]]

\* variant: the catch block swallows the error
TryInvoke_swallow(st, method, args, opts, c, p, out) ==
  LET s1 == Invoke(st, method, args, opts, c, p, out)
  IN IF out = "calls_back" THEN Complete(s1, Len(s1.invocations)) ELSE s1

\* try { this.client.m(..., callback) } catch (error) { reject(error) }
TryInvoke(st, method, args, opts, c, p, out) ==
  LET s1 == Invoke(st, method, args, opts, c, p, out)
  IN CASE out = "throws" -> Reject(s1, p)
       [] out = "calls_back" -> Complete(s1, Len(s1.invocations))
       [] OTHER -> s1

\* variant: the listener is put in front of the others (prependOnceListener)
Once_prepend(st, l) == [st EXCEPT !.listeners = <<l>> \o @]

\* this.emitter.once('initialize', listener)
Once(st, l) == [st EXCEPT !.listeners = Append(@, l)]

Listener(method, event, c, p) ==
  [method |-> method, event |-> event, call |-> c, promise |-> p]

\* ------------------------------------------------------- wrapper methods
\* Each takes the state, the argument, the call the invocation stems from and
\* what the handle does if it gets invoked.  The promise a method returns is
\* the one it creates first: Len(st.promises) + 1.

page(st, event, c, out) ==
  LET s0 == NewPromise(st)
      p == Len(s0.promises)
  IN IF s0.client # None
     THEN TryInvoke(Log(s0, "Page", c), "page",
                    <<event.category, event.name, event.properties>>,
                    InjectContext(event.options), c, p, out)
     ELSE Once(s0, Listener("page", event, c, p))

identify(st, event, c, out) ==
  LET s0 == NewPromise(st)
      p == Len(s0.promises)
  IN IF s0.client # None
     THEN TryInvoke(Log(s0, "Identify", c), "identify",
                    <<event.userId, event.traits>>,
                    InjectContext(event.options), c, p, out)
     ELSE Once(s0, Listener("identify", event, c, p))

alias(st, event, c, out) ==
  LET s0 == NewPromise(st)
      p == Len(s0.promises)
  IN IF s0.client # None
     THEN TryInvoke(Log(s0, "Alias", c), "alias",
                    <<event.userId, event.previousId>>,
                    event.options, c, p, out)
     ELSE Once(s0, Listener("alias", event, c, p))

\* variant: the call is always deferred to the next 'initialize'
track_deferred(st, event, c, out) ==
  LET s0 == NewPromise(st)
  IN Once(s0, Listener("track", event, c, Len(s0.promises)))

\* the listener is registered in both branches: there is no else
track(st, event, c, out) ==
  LET s0 == NewPromise(st)
      p == Len(s0.promises)
      s1 == IF s0.client # None
            THEN TryInvoke(Log(s0, "Track", c), "track",
                           <<event.event, event.properties>>,
                           InjectContext(event.options), c, p, out)
            ELSE s0
  IN Once(s1, Listener("track", event, c, p))

group(st, event, c, out) ==
  LET s0 == NewPromise(st)
      p == Len(s0.promises)
  IN IF s0.client # None
     THEN TryInvoke(Log(s0, "Group", c), "group",
                    <<event.groupId, event.traits>>,
                    InjectContext(event.options), c, p, out)
     ELSE Once(s0, Listener("group", event, c, p))

\* variant: this.client.ready(resolve), the callback is not passed on
ready_drops_callback(st, event, c, out) ==
  LET s0 == NewPromise(st)
      p == Len(s0.promises)
  IN IF s0.client # None
     THEN TryInvoke(s0, "ready", <<Undef>>, UndefOpts, c, p, out)
     ELSE Once(s0, Listener("ready", event, c, p))

\* no try/catch here: a throw of client.ready is caught by the Promise
\* constructor, which rejects the promise
ready(st, event, c, out) ==
  LET s0 == NewPromise(st)
      p == Len(s0.promises)
  IN IF s0.client # None
     THEN TryInvoke(s0, "ready", <<event.callback>>, UndefOpts, c, p, out)
     ELSE Once(s0, Listener("ready", event, c, p))

\* variant: nothing is deferred when the handle is absent
on_dropped(st, event, c, out) ==
  IF st.client # None
  THEN [Invoke(st, "on", <<event.method, event.callback>>, UndefOpts, c, 0, out)
          EXCEPT !.exc = (out = "throws")]
  ELSE st

\* not inside a promise: a throw of client.on propagates to the caller
on(st, event, c, out) ==
  IF st.client # None
  THEN [Invoke(st, "on", <<event.method, event.callback>>, UndefOpts, c, 0, out)
          EXCEPT !.exc = (out = "throws")]
  ELSE Once(st, Listener("on", event, c, 0))

\* the promise is resolved by the listener only; a throw of
\* client.setAnonymousId is caught by the Promise constructor
setAnonymousId(st, event, c, out) ==
  LET s0 == NewPromise(st)
      p == Len(s0.promises)
  IN IF s0.client # None
     THEN LET s1 == Invoke(s0, "setAnonymousId", <<event.id>>, UndefOpts, c, p, out)
          IN IF out = "throws" THEN Reject(s1, p) ELSE s1
     ELSE Once(s0, Listener("setAnonymousId", event, c, p))

\* ------------------------------------------------- the deferred listeners
\* variant: () => { this.page(event); resolve() }
pageListener_resolve_early(st, l, out) ==
  Resolve(page(st, l.event, l.call, out), l.promise)

\* variant: () => { this.page().then(() => resolve()) }, the event is dropped
pageListener_default_event(st, l, out) ==
  LET q == Len(st.promises) + 1
      empty == [name |-> Undef, category |-> Undef, properties |-> Undef,
                options |-> UndefOpts]
  IN Then(page(st, empty, l.call, out), q, l.promise)

\* () => { this.page(event).then(() => resolve()) }
pageListener(st, l, out) ==
  LET q == Len(st.promises) + 1
  IN Then(page(st, l.event, l.call, out), q, l.promise)

\* () => { this.identify(event) }
identifyListener(st, l, out) == identify(st, l.event, l.call, out)

\* () => { this.alias(event) }
aliasListener(st, l, out) == alias(st, l.event, l.call, out)

\* () => { this.track(track) }
trackListener(st, l, out) == track(st, l.event, l.call, out)

\* () => { this.group(event) }
groupListener(st, l, out) == group(st, l.event, l.call, out)

\* () => { this.ready(callback) }
readyListener(st, l, out) == ready(st, l.event, l.call, out)

\* () => { this.on(method, callback) }
onListener(st, l, out) == on(st, l.event, l.call, out)

\* variant: () => { resolve() }
setAnonymousIdListener_resolve_only(st, l, out) == Resolve(st, l.promise)

\* () => { this.setAnonymousId(id); resolve() }
setAnonymousIdListener(st, l, out) ==
  Resolve(setAnonymousId(st, l.event, l.call, out), l.promise)

RunListener(st, l, out) ==
  CASE l.method = "page" -> pageListener(st, l, out)
    [] l.method = "identify" -> identifyListener(st, l, out)
    [] l.method = "alias" -> aliasListener(st, l, out)
    [] l.method = "track" -> trackListener(st, l, out)
    [] l.method = "group" -> groupListener(st, l, out)
    [] l.method = "ready" -> readyListener(st, l, out)
    [] l.method = "on" -> onListener(st, l, out)
    [] l.method = "setAnonymousId" -> setAnonymousIdListener(st, l, out)

\* ------------------------------------------------------- the event emitter
\* a once() listener is removed from the emitter just before it is run
RemoveListener(st, l) ==
  [st EXCEPT !.listeners = SelectSeq(@, LAMBDA x : x # l)]

\* variant: only the first listener is run
EmitFrom_first_only(st, snapshot, outs, i) ==
  IF Len(snapshot) = 0 THEN st
  ELSE RunListener(RemoveListener(st, snapshot[1]), snapshot[1], outs[1])

\* emit('initialize') runs the listeners registered when emit was called, in
\* registration order; a listener registered meanwhile is not run; a listener
\* that throws ends the emit and the exception propagates
RECURSIVE EmitFrom(_, _, _, _)
EmitFrom(st, snapshot, outs, i) ==
  IF i > Len(snapshot) \/ st.exc THEN st
  ELSE EmitFrom(RunListener(RemoveListener(st, snapshot[i]), snapshot[i], outs[i]),
                snapshot, outs, i + 1)

\* variant: the listeners are run newest first
Emit_newest_first(st, outs) ==
  LET n == Len(st.listeners)
  IN EmitFrom([st EXCEPT !.emitted = @ + 1],
              [i \in 1..n |-> st.listeners[n + 1 - i]],
              [i \in 1..n |-> outs[n + 1 - i]], 1)

Emit(st, outs) ==
  EmitFrom([st EXCEPT !.emitted = @ + 1], st.listeners, outs, 1)

\* what the handle does at each replayed invocation, one choice per listener
ReplayOutcomes(ls) ==
  { outs \in [1..Len(ls) -> CallbackOutcomes] :
      \A i \in 1..Len(ls) : outs[i] \in OutcomesOf(ls[i].method) }

\* ------------------------------------------------------------- initialize
\* variant: the signal is emitted before the handle is stored
initialize_emit_first(st, analytics, outs) ==
  IF st.client # None THEN st
  ELSE LET timeout == IF options.timeout = Undef THEN DefaultTimeout
                      ELSE options.timeout
           debug == IF options.debug = Undef THEN DefaultDebug ELSE options.debug
           s1 == Emit(st, outs)
           s2 == [s1 EXCEPT !.client = analytics]
           s3 == Invoke(s2, "timeout", <<timeout>>, UndefOpts, 0, 0, "returns")
       IN Invoke(s3, "debug", <<debug>>, UndefOpts, 0, 0, "returns")

\* variant: no guard on this.client (every initialize configures and emits)
initialize_noguard(st, analytics, outs) ==
  LET timeout == IF options.timeout = Undef THEN DefaultTimeout
                 ELSE options.timeout
      debug == IF options.debug = Undef THEN DefaultDebug ELSE options.debug
      s1 == [st EXCEPT !.client = analytics]
      s2 == Invoke(s1, "timeout", <<timeout>>, UndefOpts, 0, 0, "returns")
      s3 == Invoke(s2, "debug", <<debug>>, UndefOpts, 0, 0, "returns")
  IN Emit(s3, [i \in 1..Len(st.listeners) |-> "returns"])

\* variant: a later initialize stores its handle without emitting again
initialize_rebind(st, analytics, outs) ==
  IF st.client # None THEN [st EXCEPT !.client = analytics]
  ELSE LET timeout == IF options.timeout = Undef THEN DefaultTimeout
                      ELSE options.timeout
           debug == IF options.debug = Undef THEN DefaultDebug ELSE options.debug
           s1 == [st EXCEPT !.client = analytics]
           s2 == Invoke(s1, "timeout", <<timeout>>, UndefOpts, 0, 0, "returns")
           s3 == Invoke(s2, "debug", <<debug>>, UndefOpts, 0, 0, "returns")
       IN Emit(s3, outs)

\* variant: the options are passed on without their defaults
initialize_no_defaults(st, analytics, outs) ==
  IF st.client # None THEN st
  ELSE LET s1 == [st EXCEPT !.client = analytics]
           s2 == Invoke(s1, "timeout", <<options.timeout>>, UndefOpts, 0, 0, "returns")
           s3 == Invoke(s2, "debug", <<options.debug>>, UndefOpts, 0, 0, "returns")
       IN Emit(s3, outs)

\* variant: the handle is configured after the signal was emitted
initialize_configure_last(st, analytics, outs) ==
  IF st.client # None THEN st
  ELSE LET timeout == IF options.timeout = Undef THEN DefaultTimeout
                      ELSE options.timeout
           debug == IF options.debug = Undef THEN DefaultDebug ELSE options.debug
           s1 == Emit([st EXCEPT !.client = analytics], outs)
           s2 == Invoke(s1, "timeout", <<timeout>>, UndefOpts, 0, 0, "returns")
       IN Invoke(s2, "debug", <<debug>>, UndefOpts, 0, 0, "returns")

initialize(st, analytics, outs) ==
  IF st.client # None THEN st
  ELSE LET timeout == IF options.timeout = Undef THEN DefaultTimeout
                      ELSE options.timeout
           debug == IF options.debug = Undef THEN DefaultDebug ELSE options.debug
           s1 == [st EXCEPT !.client = analytics]
           s2 == Invoke(s1, "timeout", <<timeout>>, UndefOpts, 0, 0, "returns")
           s3 == Invoke(s2, "debug", <<debug>>, UndefOpts, 0, 0, "returns")
       IN Emit(s3, outs)

\* ---------------------------------------------------------------- actions
\* the state after an operation: the exception, if any, reaches the caller op
Commit(st, op) ==
  /\ client' = st.client
  /\ listeners' = st.listeners
  /\ promises' = st.promises
  /\ jobs' = st.jobs
  /\ invocations' = st.invocations
  /\ emitted' = st.emitted
  /\ console' = st.console
  /\ callbacks' = st.callbacks
  /\ escaped' = IF st.exc THEN escaped \cup {op} ELSE escaped
  /\ UNCHANGED options

\* a wrapper method is called by the application; promise: the promise it
\* returns (0 for on, which returns nothing); ready: the state it was called in
Issue(method, event, promise) ==
  /\ calls' = Append(calls, [method |-> method, event |-> event,
                             promise |-> promise, ready |-> client # None])
  /\ UNCHANGED <<initialized, bvars>>

\* handles are named in the order they are first passed to initialize
Initialize ==
  \E analytics \in (IF initialized = {} THEN {"h1"} ELSE Handles) :
    \E outs \in (IF client = None THEN ReplayOutcomes(listeners) ELSE {<<>>}) :
      /\ Commit(initialize(St, analytics, outs), 0)
      /\ initialized' = initialized \cup {analytics}
      /\ UNCHANGED <<calls, bvars>>

Page ==
  /\ Len(calls) < MaxCalls
  /\ \E event \in PageEvent, out \in OutcomesOf("page") :
       /\ Commit(page(St, event, Len(calls) + 1, out), Len(calls) + 1)
       /\ Issue("page", event, Len(promises) + 1)

Identify ==
  /\ Len(calls) < MaxCalls
  /\ \E event \in IdentifyEvent, out \in OutcomesOf("identify") :
       /\ Commit(identify(St, event, Len(calls) + 1, out), Len(calls) + 1)
       /\ Issue("identify", event, Len(promises) + 1)

Alias ==
  /\ Len(calls) < MaxCalls
  /\ \E event \in AliasEvent, out \in OutcomesOf("alias") :
       /\ Commit(alias(St, event, Len(calls) + 1, out), Len(calls) + 1)
       /\ Issue("alias", event, Len(promises) + 1)

Track ==
  /\ Len(calls) < MaxCalls
  /\ \E event \in TrackEvent, out \in OutcomesOf("track") :
       /\ Commit(track(St, event, Len(calls) + 1, out), Len(calls) + 1)
       /\ Issue("track", event, Len(promises) + 1)

Group ==
  /\ Len(calls) < MaxCalls
  /\ \E event \in GroupEvent, out \in OutcomesOf("group") :
       /\ Commit(group(St, event, Len(calls) + 1, out), Len(calls) + 1)
       /\ Issue("group", event, Len(promises) + 1)

Ready ==
  /\ Len(calls) < MaxCalls
  /\ \E event \in ReadyEvent, out \in OutcomesOf("ready") :
       /\ Commit(ready(St, event, Len(calls) + 1, out), Len(calls) + 1)
       /\ Issue("ready", event, Len(promises) + 1)

On ==
  /\ Len(calls) < MaxCalls
  /\ \E event \in OnEvent, out \in OutcomesOf("on") :
       /\ Commit(on(St, event, Len(calls) + 1, out), Len(calls) + 1)
       /\ Issue("on", event, 0)

SetAnonymousId ==
  /\ Len(calls) < MaxCalls
  /\ \E event \in AnonymousIdEvent, out \in OutcomesOf("setAnonymousId") :
       /\ Commit(setAnonymousId(St, event, Len(calls) + 1, out), Len(calls) + 1)
       /\ Issue("setAnonymousId", event, Len(promises) + 1)

\* the handle fires the completion callback of an invocation that returned
\* without firing it
HandleCallback ==
  \E i \in 1..Len(invocations) :
    /\ invocations[i].status = "pending"
    /\ invocations[i].method \in EventMethods \cup {"ready"}
    /\ Commit(Complete(St, i), 0)
    /\ UNCHANGED <<calls, initialized, bvars>>

\* the microtask queue runs the oldest promise reaction: () => resolve()
RunMicrotask ==
  /\ jobs # <<>>
  /\ Commit(Resolve([St EXCEPT !.jobs = Tail(@)], Head(jobs)), 0)
  /\ UNCHANGED <<calls, initialized, bvars>>

\* no render yet: no memoized instance, no effect dependencies
Unmounted ==
  [deps |-> [apiKey |-> None, debug |-> None, timeout |-> None,
             anonymizeIp |-> None],
   instance |-> 0]
NoEffectDeps == [apiKey |-> None, client |-> 0, debug |-> None]

Init ==
  /\ options \in Options
  /\ client = None
  /\ listeners = <<>>
  /\ calls = <<>>
  /\ promises = <<>>
  /\ jobs = <<>>
  /\ invocations = <<>>
  /\ emitted = 0
  /\ console = <<>>
  /\ callbacks = <<>>
  /\ escaped = {}
  /\ initialized = {}
  /\ env = "browser"
  /\ windowAnalytics = None
  /\ scripts = <<>>
  /\ loads = <<>>
  /\ memo = Unmounted
  /\ effectDeps = NoEffectDeps
  /\ instances = <<>>
  /\ renders = <<>>
  /\ consumers = <<>>

Next ==
  \/ Initialize
  \/ Page
  \/ Identify
  \/ Alias
  \/ Track
  \/ Group
  \/ Ready
  \/ On
  \/ SetAnonymousId
  \/ HandleCallback
  \/ RunMicrotask

Spec == Init /\ [][Next]_vars

\* ============================================= the provider and the loader
Envs == {"server", "nodocument", "browser"}

\* the props of SegmentProvider that make up the identity of its client
Identities ==
  { [apiKey |-> "key1", debug |-> Undef, timeout |-> Undef, anonymizeIp |-> Undef],
    [apiKey |-> "key1", debug |-> "false", timeout |-> Undef, anonymizeIp |-> Undef],
    [apiKey |-> "key2", debug |-> "true", timeout |-> "500", anonymizeIp |-> "true"] }

\* the provider and loader state as one value, threaded through the
\* operators; init: the initialize call the operation makes, if any
B ==
  [env |-> env, windowAnalytics |-> windowAnalytics, scripts |-> scripts,
   loads |-> loads, console |-> console, memo |-> memo,
   effectDeps |-> effectDeps, instances |-> instances, renders |-> renders,
   init |-> [instance |-> 0, analytics |-> Undef]]

\* console.log / console.warn by the call l of loadSegmentSnippet
LoaderLog(b, level, line, l) ==
  [b EXCEPT !.console = Append(@, [line |-> line, call |-> 0, level |-> level,
                                   load |-> l])]
DebugLog(b, o, line, l) ==
  IF Truthy(o.debug) THEN LoaderLog(b, "log", line, l) ELSE b

\* loadScript(src): throws without a document, otherwise appends a script
\* element; the promise settles on the element's load or error event
loadScript(b, apiKey) ==
  IF b.env = "nodocument" THEN b
  ELSE [b EXCEPT !.scripts = Append(@, [apiKey |-> apiKey, state |-> "loading"])]

\* variant: window.analytics is not looked at, the script is always injected
loadSegmentSnippet_always_inject(b, o, inst) ==
  LET l == Len(b.loads) + 1
      load == [apiKey |-> o.apiKey, debug |-> o.debug, instance |-> inst,
               script |-> 0, awaited |-> "none", pc |-> "settled",
               outcome |-> "resolved", result |-> Undef]
  IN IF b.env = "server"
     THEN [DebugLog(b, o, "Unable to load analytics.js in a server environment. Skipping.", l)
             EXCEPT !.loads = Append(@, load)]
     ELSE LET b1 == DebugLog(b, o, "Loading analytics.js...", l)
              b2 == DebugLog(b1, o, "Using write key", l)
              b3 == loadScript(b2, o.apiKey)
          IN [b3 EXCEPT !.loads =
                Append(@, [load EXCEPT
                  !.script = IF b.env = "nodocument" THEN 0 ELSE Len(b3.scripts),
                  !.awaited = IF b.env = "nodocument" THEN "rejected" ELSE "pending",
                  !.pc = "awaiting", !.outcome = "pending"])]

\* loadSegmentSnippet(options) up to its first await; awaited: the state of
\* the promise of loadScript; pc: "awaiting", "settled" (the returned promise
\* is settled, its reaction has not run), "done"
loadSegmentSnippet(b, o, inst) ==
  LET l == Len(b.loads) + 1
      load == [apiKey |-> o.apiKey, debug |-> o.debug, instance |-> inst,
               script |-> 0, awaited |-> "none", pc |-> "settled",
               outcome |-> "resolved", result |-> Undef]
  IN CASE b.env = "server" ->
            [DebugLog(b, o, "Unable to load analytics.js in a server environment. Skipping.", l)
               EXCEPT !.loads = Append(@, load)]
       [] b.env # "server" /\ b.windowAnalytics # None ->
            [DebugLog(b, o, "analytics.js already loaded. Using the existing window.analytics.", l)
               EXCEPT !.loads = Append(@, [load EXCEPT !.result = b.windowAnalytics])]
       [] OTHER ->
            LET b1 == DebugLog(b, o, "Loading analytics.js...", l)
                b2 == DebugLog(b1, o, "Using write key", l)
                b3 == loadScript(b2, o.apiKey)
            IN [b3 EXCEPT !.loads =
                  Append(@, [load EXCEPT
                    !.script = IF b.env = "nodocument" THEN 0 ELSE Len(b3.scripts),
                    !.awaited = IF b.env = "nodocument" THEN "rejected" ELSE "pending",
                    !.pc = "awaiting", !.outcome = "pending"])]

\* script.onload = () => resolve(): analytics.js has run and defined
\* window.analytics
scriptOnload(b, s) ==
  [b EXCEPT !.scripts[s].state = "loaded",
            !.windowAnalytics = "h1",
            !.loads = [l \in 1..Len(b.loads) |->
                         IF b.loads[l].script = s
                         THEN [b.loads[l] EXCEPT !.awaited = "fulfilled"]
                         ELSE b.loads[l]]]

\* script.onerror = reject
scriptOnerror(b, s) ==
  [b EXCEPT !.scripts[s].state = "failed",
            !.loads = [l \in 1..Len(b.loads) |->
                         IF b.loads[l].script = s
                         THEN [b.loads[l] EXCEPT !.awaited = "rejected"]
                         ELSE b.loads[l]]]

\* variant: no try/catch around the await
resumeLoad_nocatch(b, l) ==
  IF b.loads[l].awaited = "fulfilled"
  THEN [DebugLog(b, b.loads[l], "analytics.js is loaded and ready", l)
          EXCEPT !.loads[l].pc = "settled", !.loads[l].outcome = "resolved",
                 !.loads[l].result = IF b.windowAnalytics = None THEN Undef
                                     ELSE b.windowAnalytics]
  ELSE [b EXCEPT !.loads[l].pc = "settled", !.loads[l].outcome = "rejected"]

\* loadSegmentSnippet after the await: the script has loaded, or the catch
\* block warns and returns undefined
resumeLoad(b, l) ==
  IF b.loads[l].awaited = "fulfilled"
  THEN [DebugLog(b, b.loads[l], "analytics.js is loaded and ready", l)
          EXCEPT !.loads[l].pc = "settled", !.loads[l].outcome = "resolved",
                 !.loads[l].result = IF b.windowAnalytics = None THEN Undef
                                     ELSE b.windowAnalytics]
  ELSE [LoaderLog(b, "warn",
                  "Failed to load analytics.js. No analytics events will be tracked.", l)
          EXCEPT !.loads[l].pc = "settled", !.loads[l].outcome = "resolved",
                 !.loads[l].result = Undef]

\* variant: .then(analytics => { client.initialize(analytics) })
thenInitialize_unchecked(b, l) ==
  LET k == b.loads[l].instance
  IN [b EXCEPT !.loads[l].pc = "done",
               !.instances[k].inits = Append(@, b.loads[l].result),
               !.init = [instance |-> k, analytics |-> b.loads[l].result]]

\* .then(analytics => { if (analytics) { client.initialize(analytics) } })
thenInitialize(b, l) ==
  LET k == b.loads[l].instance
  IN IF Truthy(b.loads[l].result)
     THEN [b EXCEPT !.loads[l].pc = "done",
                    !.instances[k].inits = Append(@, b.loads[l].result),
                    !.init = [instance |-> k, analytics |-> b.loads[l].result]]
     ELSE [b EXCEPT !.loads[l].pc = "done"]

\* variant: a new SegmentClient on every render
useSegmentClient_nomemo(b, props) ==
  LET b1 == [b EXCEPT !.instances = Append(@, [identity |-> props, inits |-> <<>>]),
                      !.memo = [deps |-> props, instance |-> Len(b.instances) + 1]]
      deps == [apiKey |-> props.apiKey, client |-> b1.memo.instance,
               debug |-> props.debug]
      b2 == [b1 EXCEPT !.effectDeps = deps]
  IN [loadSegmentSnippet(b2, [apiKey |-> props.apiKey, debug |-> props.debug],
                         b1.memo.instance)
        EXCEPT !.renders = Append(@, props)]

\* variant: useEffect without dependencies, the effect runs at every render
useSegmentClient_effect_always(b, props) ==
  LET b1 == IF b.memo.deps = props THEN b
            ELSE [b EXCEPT !.instances = Append(@, [identity |-> props,
                                                    inits |-> <<>>]),
                           !.memo = [deps |-> props,
                                     instance |-> Len(b.instances) + 1]]
      deps == [apiKey |-> props.apiKey, client |-> b1.memo.instance,
               debug |-> props.debug]
      b2 == loadSegmentSnippet([b1 EXCEPT !.effectDeps = deps],
                               [apiKey |-> props.apiKey, debug |-> props.debug],
                               b1.memo.instance)
  IN [b2 EXCEPT !.renders = Append(@, props)]

\* one render of useSegmentClient(options) and the effect it leaves behind:
\* useMemo keeps the client while [apiKey, debug, timeout, anonymizeIp] are
\* those of the last render; useEffect runs when [apiKey, client, debug] changed
useSegmentClient(b, props) ==
  LET b1 == IF b.memo.deps = props THEN b
            ELSE [b EXCEPT !.instances = Append(@, [identity |-> props,
                                                    inits |-> <<>>]),
                           !.memo = [deps |-> props,
                                     instance |-> Len(b.instances) + 1]]
      deps == [apiKey |-> props.apiKey, client |-> b1.memo.instance,
               debug |-> props.debug]
      b2 == IF b1.effectDeps = deps THEN b1
            ELSE loadSegmentSnippet([b1 EXCEPT !.effectDeps = deps],
                                    [apiKey |-> props.apiKey, debug |-> props.debug],
                                    b1.memo.instance)
  IN [b2 EXCEPT !.renders = Append(@, props)]

\* new SegmentClient({ apiKey, debug, timeout, anonymizeIp })
ClientOptions(props) ==
  [debug |-> props.debug, timeout |-> props.timeout,
   anonymizeIp |-> props.anonymizeIp]

\* the provider and loader state after an operation
CommitB(b) ==
  /\ env' = b.env
  /\ windowAnalytics' = b.windowAnalytics
  /\ scripts' = b.scripts
  /\ loads' = b.loads
  /\ memo' = b.memo
  /\ effectDeps' = b.effectDeps
  /\ instances' = b.instances
  /\ renders' = b.renders
  /\ UNCHANGED consumers

\* the wrapper is left alone but for what was written to the console
LoaderOnly(b) ==
  /\ CommitB(b)
  /\ console' = b.console
  /\ UNCHANGED <<options, client, listeners, calls, promises, jobs,
                 invocations, emitted, callbacks, escaped, initialized>>

\* the provider is rendered again, with the same or with other props
Rerender ==
  /\ memo.instance # 0
  /\ Len(renders) < MaxRenders
  /\ \E props \in Identities : LoaderOnly(useSegmentClient(B, props))

ScriptLoads ==
  \E s \in 1..Len(scripts) :
    /\ scripts[s].state = "loading"
    /\ LoaderOnly(scriptOnload(B, s))

ScriptFails ==
  \E s \in 1..Len(scripts) :
    /\ scripts[s].state = "loading"
    /\ LoaderOnly(scriptOnerror(B, s))

LoadResume ==
  \E l \in 1..Len(loads) :
    /\ loads[l].pc = "awaiting"
    /\ loads[l].awaited \in {"fulfilled", "rejected"}
    /\ LoaderOnly(resumeLoad(B, l))

\* the reaction of the effect to the settled load; the wrapper variables are
\* those of the first instance the provider constructed
LoadThen ==
  \E l \in 1..Len(loads) :
    /\ loads[l].pc = "settled"
    /\ loads[l].outcome = "resolved"
    /\ LET b == thenInitialize(B, l)
       IN /\ CommitB(b)
          /\ IF b.init.instance = 1
             THEN \E outs \in (IF client = None THEN ReplayOutcomes(listeners)
                               ELSE {<<>>}) :
                    /\ Commit(initialize(St, b.init.analytics, outs), 0)
                    /\ initialized' = initialized \cup {b.init.analytics}
                    /\ UNCHANGED calls
             ELSE UNCHANGED wvars

\* the method named by a call of the application
CallMethod(st, method, event, c, out) ==
  CASE method = "page" -> page(st, event, c, out)
    [] method = "identify" -> identify(st, event, c, out)
    [] method = "alias" -> alias(st, event, c, out)
    [] method = "track" -> track(st, event, c, out)
    [] method = "group" -> group(st, event, c, out)
    [] method = "ready" -> ready(st, event, c, out)
    [] method = "on" -> on(st, event, c, out)
    [] method = "setAnonymousId" -> setAnonymousId(st, event, c, out)

EventsOf(method) ==
  CASE method = "page" -> PageEvent
    [] method = "identify" -> IdentifyEvent
    [] method = "alias" -> AliasEvent
    [] method = "track" -> TrackEvent
    [] method = "group" -> GroupEvent
    [] method = "ready" -> ReadyEvent
    [] method = "on" -> OnEvent
    [] method = "setAnonymousId" -> AnonymousIdEvent

\* a component below the provider calls a method of the client of useSegment()
AppCall ==
  /\ memo.instance = 1
  /\ Len(calls) < MaxAppCalls
  /\ \E method \in Methods :
       \E event \in EventsOf(method), out \in OutcomesOf(method) :
         /\ Commit(CallMethod(St, method, event, Len(calls) + 1, out),
                   Len(calls) + 1)
         /\ Issue(method, event,
                  IF method = "on" THEN 0 ELSE Len(promises) + 1)

\* SegmentContext: the value a component reads with useContext, the client
\* (instance number) of the provider above it or, without a provider, the
\* default value undefined
NoContext == 0
ContextValues == {NoContext, memo.instance}

\* variant: the context value is returned as it is
useSegment_unchecked(context) == [threw |-> FALSE, client |-> context]

\* useSegment(): throws when the context holds no client
useSegment(context) ==
  IF context = NoContext THEN [threw |-> TRUE, client |-> NoContext]
  ELSE [threw |-> FALSE, client |-> context]

\* a component calls useSegment() while it renders, below the provider
\* (provider: its current client) or outside of any provider
UseSegment ==
  /\ Len(consumers) < MaxConsumers
  /\ \E context \in ContextValues :
       LET r == useSegment(context)
       IN consumers' = Append(consumers, [provider |-> context,
                                          threw |-> r.threw,
                                          client |-> r.client])
  /\ UNCHANGED <<wvars, env, windowAnalytics, scripts, loads, memo, effectDeps,
                 instances, renders>>

\* the provider has been rendered once: its client is constructed and its
\* effect has called loadSegmentSnippet
InitMounted ==
  \E props \in Identities, e \in Envs :
    \E wa \in (IF e = "browser" THEN {None, "h1"} ELSE {None}) :
      LET b0 == [env |-> e, windowAnalytics |-> wa, scripts |-> <<>>,
                 loads |-> <<>>, console |-> <<>>, memo |-> Unmounted,
                 effectDeps |-> NoEffectDeps, instances |-> <<>>,
                 renders |-> <<>>,
                 init |-> [instance |-> 0, analytics |-> Undef]]
          b == useSegmentClient(b0, props)
      IN /\ options = ClientOptions(props)
         /\ client = None
         /\ listeners = <<>>
         /\ calls = <<>>
         /\ promises = <<>>
         /\ jobs = <<>>
         /\ invocations = <<>>
         /\ emitted = 0
         /\ console = b.console
         /\ callbacks = <<>>
         /\ escaped = {}
         /\ initialized = {}
         /\ env = b.env
         /\ windowAnalytics = b.windowAnalytics
         /\ scripts = b.scripts
         /\ loads = b.loads
         /\ memo = b.memo
         /\ effectDeps = b.effectDeps
         /\ instances = b.instances
         /\ renders = b.renders
         /\ consumers = <<>>

\* the provider across renders, and the loads its effects start
NextBinding ==
  \/ Rerender
  \/ ScriptLoads
  \/ ScriptFails
  \/ LoadResume
  \/ LoadThen

SpecBinding == InitMounted /\ [][NextBinding]_vars

\* one mounted provider, the load of its client and the application using it
NextMount ==
  \/ ScriptLoads
  \/ ScriptFails
  \/ LoadResume
  \/ LoadThen
  \/ AppCall
  \/ Initialize
  \/ HandleCallback
  \/ RunMicrotask

SpecMount == InitMounted /\ [][NextMount]_vars

\* the provider across renders and the components reading its context;
\* useSegment reads nothing but the context value, so the steps of the loads
\* are left out
NextContext ==
  \/ Rerender
  \/ UseSegment

SpecContext == InitMounted /\ [][NextContext]_vars

\* ================================================================ claims
QueuedCalls == { c \in 1..Len(calls) : ~calls[c].ready }
ReadyCalls == { c \in 1..Len(calls) : calls[c].ready }
InvocationsOf(c) == { i \in 1..Len(invocations) : invocations[i].call = c }
InvocationsOfMethod(m) == { i \in 1..Len(invocations) : invocations[i].method = m }
InvokedOnce(c) ==
  /\ Cardinality(InvocationsOf(c)) = 1
  /\ \A i \in InvocationsOf(c) : invocations[i].method = calls[c].method

\* C1: when only page, identify, alias, track and group calls were issued
\* before initialize, no handle method is invoked while the handle is absent,
\* and once initialize has run each of those calls has caused exactly one
\* invocation of the same-named handle method.
C1_QueuedCallsInvokedExactlyOnce ==
  /\ client = None => invocations = <<>>
  /\ (client # None /\ \A c \in QueuedCalls : calls[c].method \in EventMethods)
       => \A c \in QueuedCalls : InvokedOnce(c)

C1_Witness ==
  /\ client # None
  /\ Len(calls) = 2
  /\ QueuedCalls = {1, 2}
  /\ calls[1].method = "track"
  /\ calls[2].method = "identify"
  /\ InvokedOnce(1)
  /\ InvokedOnce(2)

\* C2: initialize is idempotent: the ready signal is emitted at most once,
\* timeout and debug are applied at most once (exactly once when the handle is
\* present), every handle invocation is made on the stored handle, which is one
\* of the handles initialize was given, no queued call is replayed twice, and
\* when initialize returned normally every queued call was replayed exactly
\* once, whatever initialize calls followed the first.
C2_InitializeIdempotent ==
  /\ emitted <= 1
  /\ Cardinality(InvocationsOfMethod("timeout")) <= 1
  /\ Cardinality(InvocationsOfMethod("debug")) <= 1
  /\ client # None =>
       /\ emitted = 1
       /\ Cardinality(InvocationsOfMethod("timeout")) = 1
       /\ Cardinality(InvocationsOfMethod("debug")) = 1
       /\ client \in initialized
  /\ \A i \in 1..Len(invocations) : invocations[i].handle = client
  /\ \A c \in QueuedCalls : Cardinality(InvocationsOf(c)) <= 1
  /\ (client # None /\ 0 \notin escaped) => \A c \in QueuedCalls : InvokedOnce(c)

C2_Witness ==
  /\ client = "h1"
  /\ initialized = {"h1", "h2"}
  /\ \E c \in QueuedCalls : calls[c].method = "track" /\ InvokedOnce(c)

\* C3: two calls of the same method issued before initialize reach the handle
\* in the order they were issued, and the later one is not replayed unless the
\* earlier one is.
C3_SameMethodReplayOrder ==
  \A a \in QueuedCalls, b \in QueuedCalls :
    (a < b /\ calls[a].method = calls[b].method) =>
      /\ \A i \in InvocationsOf(a), j \in InvocationsOf(b) : i < j
      /\ InvocationsOf(b) # {} => InvocationsOf(a) # {}

C3_Witness ==
  /\ QueuedCalls = {1, 2}
  /\ calls[1].method = "page"
  /\ calls[2].method = "page"
  /\ calls[1].event # calls[2].event
  /\ InvocationsOf(1) # {}
  /\ InvocationsOf(2) # {}

\* C4: a page, identify, alias, track or group call made when the handle is
\* present has, in the state the call leaves behind and ever after, exactly
\* one invocation of the same-named handle method.
C4_ReadyCallsInvokedSynchronously ==
  \A c \in ReadyCalls : calls[c].method \in EventMethods => InvokedOnce(c)

C4_Witness ==
  \E c \in ReadyCalls :
    /\ calls[c].method = "track"
    /\ InvokedOnce(c)
    /\ \E i \in InvocationsOf(c) : invocations[i].status = "pending"

\* C5: the handle is absent initially, becomes present only through the first
\* initialize, as the handle passed to it, and is never cleared or replaced.
C5_HandleSingleAssignment ==
  /\ client = None
  /\ [][ /\ client # None => client' = client
         /\ (client = None /\ client' # None) =>
              (initialized = {} /\ initialized' = {client'}) ]_vars

C5_Witness ==
  /\ client = "h1"
  /\ initialized = {"h1", "h2"}
  /\ Len(calls) = MaxCalls

PromiseOf(c) == promises[calls[c].promise]
EventCalls == { c \in 1..Len(calls) : calls[c].method \in EventMethods }

\* C6: for page, identify, alias, track and group, in both states: once the
\* handle has fired the completion callback of the invocation made for a call
\* (and the microtask queue has drained), the promise returned to the caller
\* of that call is resolved.
C6_PromiseResolvedOnCompletion ==
  \A c \in EventCalls :
    ((\E i \in InvocationsOf(c) : invocations[i].status = "completed")
       /\ jobs = <<>>)
      => PromiseOf(c).state = "resolved"

\* C7: the promise returned by a page, identify, alias, track or group call is
\* not resolved unless the handle has fired the completion callback of the
\* invocation made for that call; while the handle is absent it is pending.
C7_NoEarlyResolve ==
  \A c \in EventCalls :
    /\ PromiseOf(c).state = "resolved"
         => \E i \in InvocationsOf(c) : invocations[i].status = "completed"
    /\ client = None => PromiseOf(c).state = "pending"

C7_Witness ==
  \E c \in QueuedCalls :
    /\ calls[c].method = "page"
    /\ PromiseOf(c).state = "resolved"

\* C8: the options argument of every handle invocation made by page,
\* identify, alias, track and group carries context.ip = '0.0.0.0' when
\* anonymizeIp is true, and an undefined context.ip when it is unset or false.
C8_ContextIpInjected ==
  \A i \in 1..Len(invocations) :
    invocations[i].method \in EventMethods =>
      invocations[i].options.context.ip =
        (IF options.anonymizeIp = "true" THEN AnonymizedIp ELSE Undef)

\* C9: a call replayed after initialize hands the handle method the same
\* positional arguments as a direct call with the same event record.
C9_SameArgumentsReplayedOrDirect ==
  \A a \in QueuedCalls, b \in ReadyCalls :
    (/\ calls[a].method \in EventMethods
     /\ calls[a].method = calls[b].method
     /\ calls[a].event = calls[b].event)
      => \A i \in InvocationsOf(a), j \in InvocationsOf(b) :
           invocations[i].args = invocations[j].args

C9_Witness ==
  \E a \in QueuedCalls, b \in ReadyCalls :
    /\ calls[a].method = "page"
    /\ calls[b].method = "page"
    /\ calls[a].event = calls[b].event
    /\ calls[a].event.name = "Test"
    /\ \E i \in InvocationsOf(a), j \in InvocationsOf(b) :
         invocations[i].args = <<"Category", "Test", "test=1">>

\* C10: when the handle method throws during a page, identify, alias, track
\* or group call made with the handle present, the returned promise is
\* rejected, no exception reaches the caller, and the handle method is never
\* invoked for that call again.
C10_ThrowRejectsWithoutRetry ==
  \A c \in ReadyCalls :
    (/\ calls[c].method \in EventMethods
     /\ \E i \in InvocationsOf(c) : invocations[i].status = "threw")
      => /\ PromiseOf(c).state = "rejected"
         /\ c \notin escaped
         /\ Cardinality(InvocationsOf(c)) = 1

C10_Witness ==
  \E c \in ReadyCalls :
    /\ calls[c].method = "track"
    /\ \E i \in InvocationsOf(c) : invocations[i].status = "threw"
    /\ PromiseOf(c).state = "rejected"
    /\ Len(calls) > c

\* a listener that was registered by a call made while the handle was absent
Deferred(l) == ~calls[l.call].ready /\ l.promise = calls[l.call].promise
CallsOf(m) == { c \in 1..Len(calls) : calls[c].method = m }

\* C11: the ready signal is emitted exactly once, by the first initialize,
\* and never again whatever initialize and method calls follow; when that
\* initialize returned normally, every listener that was registered at that
\* moment has been notified (none of them is still waiting).
C11_ReadySignalOnce ==
  /\ emitted <= 1
  /\ emitted = (IF client = None THEN 0 ELSE 1)
  /\ (client # None /\ 0 \notin escaped) =>
       \A i \in 1..Len(listeners) : ~Deferred(listeners[i])

C11_Witness ==
  /\ emitted = 1
  /\ initialized = {"h1", "h2"}
  /\ QueuedCalls = {1, 2}
  /\ 0 \notin escaped
  /\ InvokedOnce(1)
  /\ InvokedOnce(2)
  /\ calls[1].method = "ready"

\* C12: handle.timeout receives the configured timeout, or 200 when none was
\* configured, handle.debug the configured debug flag, or false when none was
\* configured, both on the handle given to the first initialize.
C12_TimeoutAndDebugApplied ==
  /\ \A i \in InvocationsOfMethod("timeout") :
       /\ invocations[i].args =
            <<IF options.timeout = Undef THEN "200" ELSE options.timeout>>
       /\ invocations[i].handle = client
  /\ \A i \in InvocationsOfMethod("debug") :
       /\ invocations[i].args =
            <<IF options.debug = Undef THEN "false" ELSE options.debug>>
       /\ invocations[i].handle = client
  /\ client # None =>
       /\ InvocationsOfMethod("timeout") # {}
       /\ InvocationsOfMethod("debug") # {}

C12_Witness ==
  /\ client = "h1"
  /\ options.timeout = Undef
  /\ options.debug = Undef
  /\ \E i \in InvocationsOfMethod("timeout") : invocations[i].args = <<"200">>
  /\ \E i \in InvocationsOfMethod("debug") : invocations[i].args = <<"false">>

\* the records of the ready() callback having been run for call c
CallbacksOf(c) == { k \in 1..Len(callbacks) : callbacks[k].call = c }

\* C13: a ready(callback) call reaches handle.ready at most once; exactly once,
\* in the call itself, when the handle is present; not at all while the handle
\* is absent and exactly once after an initialize that returned normally when
\* it was deferred; and once the handle has fired its ready notification the
\* callback has been run once, with the handle as its argument.
C13_ReadyForwardedOnce ==
  \A c \in CallsOf("ready") :
    /\ Cardinality(InvocationsOf(c)) <= 1
    /\ calls[c].ready => InvokedOnce(c)
    /\ (~calls[c].ready /\ client = None) => InvocationsOf(c) = {}
    /\ (~calls[c].ready /\ client # None /\ 0 \notin escaped) => InvokedOnce(c)
    /\ \A i \in InvocationsOf(c) :
         IF invocations[i].status = "completed"
         THEN /\ Cardinality(CallbacksOf(c)) = 1
              /\ \A k \in CallbacksOf(c) :
                   /\ callbacks[k].callback = calls[c].event.callback
                   /\ callbacks[k].analytics = client
         ELSE CallbacksOf(c) = {}

C13_Witness ==
  \E c \in CallsOf("ready") :
    /\ ~calls[c].ready
    /\ InvokedOnce(c)
    /\ \E k \in CallbacksOf(c) : callbacks[k].analytics = "h1"

\* C14: once the handle's ready notification for a ready() call has fired (and
\* the microtask queue has drained), the promise that call returned is
\* resolved, whether ready() was called after initialize or deferred.
C14_ReadyPromiseResolved ==
  \A c \in CallsOf("ready") :
    ((\E i \in InvocationsOf(c) : invocations[i].status = "completed")
       /\ jobs = <<>>)
      => PromiseOf(c).state = "resolved"

\* C15: an on(eventType, callback) call reaches handle.on at most once, with
\* that eventType and callback: in the call itself when the handle is present,
\* never while the handle is absent, and exactly once after an initialize that
\* returned normally when it was deferred.
C15_OnRegisteredOnce ==
  \A c \in CallsOf("on") :
    /\ Cardinality(InvocationsOf(c)) <= 1
    /\ \A i \in InvocationsOf(c) :
         /\ invocations[i].method = "on"
         /\ invocations[i].args = <<calls[c].event.method, calls[c].event.callback>>
    /\ calls[c].ready => InvokedOnce(c)
    /\ (~calls[c].ready /\ client = None) => InvocationsOf(c) = {}
    /\ (~calls[c].ready /\ client # None /\ 0 \notin escaped) => InvokedOnce(c)

C15_Witness ==
  \E c \in CallsOf("on") :
    /\ ~calls[c].ready
    /\ InvokedOnce(c)
    /\ \E i \in InvocationsOf(c) : invocations[i].status = "returned"
    /\ Len(calls) = MaxCalls

\* C16: a setAnonymousId(id) call made while the handle is absent touches no
\* handle until initialize, is replayed as handle.setAnonymousId(id) with the
\* same id exactly once by an initialize that returned normally, and is never
\* replayed a second time, whatever initialize calls follow.
C16_SetAnonymousIdReplayedOnce ==
  \A c \in CallsOf("setAnonymousId") :
    ~calls[c].ready =>
      /\ Cardinality(InvocationsOf(c)) <= 1
      /\ \A i \in InvocationsOf(c) :
           /\ invocations[i].method = "setAnonymousId"
           /\ invocations[i].args = <<calls[c].event.id>>
      /\ client = None => InvocationsOf(c) = {}
      /\ (client # None /\ 0 \notin escaped) => InvokedOnce(c)

C16_Witness ==
  \E c \in CallsOf("setAnonymousId") :
    /\ ~calls[c].ready
    /\ InvokedOnce(c)
    /\ initialized = {"h1", "h2"}

\* a load that cannot produce a handle: there is no window, or the promise of
\* loadScript was rejected (no document, or the script element's error event)
FailedLoad(l) == env = "server" \/ loads[l].awaited = "rejected"
\* what the call l of loadSegmentSnippet has written to the console
LinesOf(l) ==
  { i \in 1..Len(console) : console[i].call = 0 /\ console[i].load = l }

\* C17: the promise of loadSegmentSnippet is never rejected; when there is no
\* window, and when the script it injected fails to load (or cannot be
\* injected), the promise is resolved with undefined.
C17_LoadNeverRejects ==
  \A l \in 1..Len(loads) :
    /\ loads[l].outcome # "rejected"
    /\ (FailedLoad(l) /\ loads[l].pc # "awaiting")
         => /\ loads[l].outcome = "resolved"
            /\ loads[l].result = Undef

C17_Witness ==
  \E l \in 1..Len(loads) :
    /\ loads[l].script # 0
    /\ scripts[loads[l].script].state = "failed"
    /\ loads[l].pc # "awaiting"
    /\ loads[l].outcome = "resolved"
    /\ loads[l].result = Undef

\* C18: when the load of the mounted provider fails (no window, or the script
\* does not load) the provider never calls initialize; as long as nobody else
\* does, the handle stays absent, no handle method is invoked and every call
\* made is waiting in the queue with its promise pending; after a later
\* initialize that returned normally each queued call has been replayed
\* exactly once.
C18_FailedLoadLeavesQueue ==
  (\A l \in 1..Len(loads) : FailedLoad(l)) =>
    /\ \A k \in 1..Len(instances) : instances[k].inits = <<>>
    /\ initialized = {} =>
         /\ client = None
         /\ invocations = <<>>
         /\ \A c \in 1..Len(calls) :
              /\ ~calls[c].ready
              /\ calls[c].promise # 0 => PromiseOf(c).state = "pending"
              /\ \E i \in 1..Len(listeners) :
                   listeners[i].call = c /\ Deferred(listeners[i])
    /\ (initialized # {} /\ 0 \notin escaped) =>
         \A c \in QueuedCalls : InvokedOnce(c)

C18_Witness ==
  /\ \E l \in 1..Len(loads) :
       /\ loads[l].script # 0
       /\ scripts[loads[l].script].state = "failed"
       /\ loads[l].pc = "done"
  /\ instances[1].inits = <<>>
  /\ initialized = {"h1"}
  /\ 0 \notin escaped
  /\ QueuedCalls = {1}
  /\ InvokedOnce(1)

\* C19: with debug false or unset, a call of loadSegmentSnippet whose script
\* fails to load, or that runs without a window, writes nothing to the
\* console.
C19_SilentWithoutDebug ==
  \A l \in 1..Len(loads) :
    (~Truthy(loads[l].debug) /\ FailedLoad(l)) => LinesOf(l) = {}

\* the renders whose identity differs from that of the render before
RenderChanges ==
  { i \in 1..Len(renders) : i = 1 \/ renders[i] # renders[i - 1] }

\* C20 (as stated): there are as many SegmentClient instances as there are
\* distinct identities among the renders.
C20_OneInstancePerIdentity ==
  Len(instances) = Cardinality({ renders[i] : i \in 1..Len(renders) })

\* C20 (amended): a render whose identity is that of the render before it
\* returns the same instance, and a new instance is constructed exactly at
\* the first render and at each render whose identity differs from the
\* previous render's; the instance returned is the newest and carries the
\* current identity.  An identity that comes back after a change gets a new
\* instance.
C20_InstancePerIdentityChange ==
  /\ Len(instances) = Cardinality(RenderChanges)
  /\ memo.instance = Len(instances)
  /\ instances[memo.instance].identity = renders[Len(renders)]
  /\ \A k \in 1..(Len(instances) - 1) :
       instances[k].identity # instances[k + 1].identity

C20_Witness ==
  /\ Len(renders) = 3
  /\ renders[1] = renders[3]
  /\ renders[1] # renders[2]
  /\ Len(instances) = 3
  /\ instances[1].identity = instances[3].identity

\* the calls of loadSegmentSnippet made for the k-th instance of the provider
LoadsOf(k) == { l \in 1..Len(loads) : loads[l].instance = k }

\* C21: for every SegmentClient the provider constructs, loadSegmentSnippet
\* is called exactly once, however that load ends and however often the
\* provider is rendered again; once the reaction to a load has run, the
\* instance the load was started for has been initialized with the handle the
\* load produced, and with nothing if the load produced none; no instance is
\* initialized by the provider more than once.
C21_OneLoadPerInstance ==
  /\ \A k \in 1..Len(instances) :
       /\ Cardinality(LoadsOf(k)) = 1
       /\ Len(instances[k].inits) <= 1
       /\ \A j \in 1..Len(instances[k].inits) :
            \E l \in LoadsOf(k) :
              loads[l].pc = "done" /\ loads[l].result = instances[k].inits[j]
  /\ \A l \in 1..Len(loads) :
       /\ loads[l].instance \in 1..Len(instances)
       /\ loads[l].pc = "done" =>
            instances[loads[l].instance].inits =
              (IF Truthy(loads[l].result) THEN <<loads[l].result>> ELSE <<>>)

C21_Witness ==
  /\ Len(instances) >= 2
  /\ Len(renders) > Len(instances)
  /\ \E l \in LoadsOf(1) :
       /\ loads[l].awaited = "rejected"
       /\ loads[l].pc = "done"
  /\ instances[1].inits = <<>>
  /\ \E l \in LoadsOf(2) :
       /\ loads[l].pc = "done"
       /\ loads[l].result = "h1"
  /\ instances[2].inits = <<"h1">>

\* C22: a useSegment() call with no SegmentProvider above it throws, in the
\* call itself; with a provider above it, it does not throw and returns the
\* client that provider holds at that render.
C22_UseSegmentNeedsProvider ==
  \A i \in 1..Len(consumers) :
    IF consumers[i].provider = NoContext
    THEN consumers[i].threw
    ELSE /\ ~consumers[i].threw
         /\ consumers[i].client = consumers[i].provider
         /\ consumers[i].client \in 1..Len(instances)

C22_Witness ==
  /\ Len(consumers) = 2
  /\ consumers[1].provider = NoContext
  /\ consumers[1].threw
  /\ ~consumers[2].threw
  /\ consumers[2].client = 2

\* C23: a call made while the handle is present registers no listener on the
\* ready signal: every registered listener stems from a call made while the
\* handle was absent, and once an initialize has run and returned normally no
\* listener is left.
C23_ReadyCallsBypassQueue ==
  /\ \A i \in 1..Len(listeners) : ~calls[listeners[i].call].ready
  /\ (client # None /\ 0 \notin escaped) => listeners = <<>>

\* C24: when the handle method threw at the replay of a page, identify,
\* alias, track or group call that was made before initialize, the promise
\* returned by that call is rejected (once the microtask queue has drained)
\* and the call caused no second invocation.
C24_ReplayThrowRejects ==
  \A c \in QueuedCalls \cap EventCalls :
    ((\E i \in InvocationsOf(c) : invocations[i].status = "threw")
       /\ jobs = <<>>)
      => /\ PromiseOf(c).state = "rejected"
         /\ Cardinality(InvocationsOf(c)) = 1

\* C25: whatever the handle throws during the replay, the first initialize
\* returns normally and every call queued before it has been replayed exactly
\* once.
C25_NoQueuedCallLost ==
  client # None =>
    /\ 0 \notin escaped
    /\ \A c \in QueuedCalls : InvokedOnce(c)

\* C26: handle.timeout and handle.debug are the first two invocations made on
\* the handle, so they precede the invocation of every replayed call, and
\* every invocation, those of the replay included, is made on the stored
\* handle.
C26_ConfiguredBeforeReplay ==
  /\ client = None => invocations = <<>>
  /\ client # None =>
       /\ Len(invocations) >= 2
       /\ invocations[1].method = "timeout"
       /\ invocations[2].method = "debug"
  /\ \A i \in 1..Len(invocations) :
       /\ invocations[i].handle = client
       /\ invocations[i].handle # None
       /\ invocations[i].call # 0 => i > 2

C26_Witness ==
  /\ QueuedCalls = {1, 2}
  /\ InvocationsOf(1) = {3}
  /\ InvocationsOf(2) = {4}
  /\ invocations[3].handle = "h1"
  /\ invocations[1].method = "timeout"
  /\ invocations[2].method = "debug"

\* C27: once handle.setAnonymousId has been invoked for a setAnonymousId(id)
\* call and has returned (and the microtask queue has drained), the promise
\* that call returned is resolved, whether the call was made with the handle
\* present or was replayed.
C27_SetAnonymousIdPromiseResolved ==
  \A c \in CallsOf("setAnonymousId") :
    ((\E i \in InvocationsOf(c) : invocations[i].status = "returned")
       /\ jobs = <<>>)
      => PromiseOf(c).state = "resolved"

\* C28: at every invocation of handle.page, identify, track or group the
\* options argument is an object carrying the integrations and anonymousId of
\* the caller's options unchanged, and as its context exactly { ip }, with
\* ip = '0.0.0.0' or undefined by anonymizeIp; nothing of a context the
\* caller supplied is kept.
C28_OptionsForwardedContextReplaced ==
  \A i \in 1..Len(invocations) :
    invocations[i].method \in {"page", "identify", "track", "group"} =>
      LET given == calls[invocations[i].call].event.options
          passed == invocations[i].options
      IN /\ passed.kind = "object"
         /\ passed.integrations = given.integrations
         /\ passed.anonymousId = given.anonymousId
         /\ passed.context =
              [kind |-> "object",
               ip |-> IF options.anonymizeIp = "true" THEN AnonymizedIp ELSE Undef]

C28_Witness ==
  /\ options.anonymizeIp # "true"
  /\ \E i, j \in 1..Len(invocations) :
       /\ invocations[i].method = "group"
       /\ calls[invocations[i].call].event.options.context.ip = "1.2.3.4"
       /\ invocations[i].options.context.ip = Undef
       /\ invocations[j].method = "track"
       /\ invocations[j].options.integrations = "All"
       /\ invocations[j].options.anonymousId = "anon"

\* C29: calls queued before initialize reach the handle in the order they were
\* issued, whatever their methods: when a queued call has been invoked, every
\* call queued before it has been invoked too, and earlier.
C29_GlobalReplayOrder ==
  \A a \in QueuedCalls, b \in QueuedCalls :
    a < b =>
      \A j \in InvocationsOf(b) :
        /\ InvocationsOf(a) # {}
        /\ \A i \in InvocationsOf(a) : i < j

C29_Witness ==
  /\ QueuedCalls = {1, 2}
  /\ calls[1].method = "setAnonymousId"
  /\ calls[2].method = "page"
  /\ InvocationsOf(1) = {3}
  /\ InvocationsOf(2) = {4}

\* C30: a call of loadSegmentSnippet made while window.analytics is defined
\* appends no script element, and its promise is resolved with the object
\* window.analytics held at the call.
C30_ExistingAnalyticsReused ==
  [][(Len(loads') > Len(loads) /\ windowAnalytics # None)
       => /\ scripts' = scripts
          /\ loads'[Len(loads')].script = 0
          /\ loads'[Len(loads')].outcome = "resolved"
          /\ loads'[Len(loads')].result = windowAnalytics]_vars

C30_Witness ==
  /\ Len(loads) = 2
  /\ Len(scripts) = 1
  /\ scripts[1].state = "loaded"
  /\ loads[2].script = 0
  /\ loads[2].outcome = "resolved"
  /\ loads[2].result = "h1"

\* C31: however the calls of loadSegmentSnippet in one window interleave with
\* the load and error events of the scripts, at most one analytics.js script
\* element has been appended to the document.
C31_AtMostOneScript == Len(scripts) <= 1
====
